---- MODULE Spec2Model ----
(***************************************************************************)
(* gosearch: concurrent walk of a directory tree with one name-match task  *)
(* per entry and one read+content-match task per small file, reporting to  *)
(* a single consumer over an unbuffered channel (src/gosearch.go).         *)
(***************************************************************************)
EXTENDS Integers, Sequences, FiniteSets, TLC

\* ------------------------------------------------------------------ bounds
\* Largest number of walk-callback invocations of a generated tree.
MaxEntries == 2

\* ------------------------------------------------------- program constants
\* flag -s is in MB: the walker compares f.Size() with maxSize*1024*1024.
BytesPerMB == 1024 * 1024

\* ------------------------------------------------------------ pure helpers
\* strings.Contains(s, substr) on strings modelled as sequences of characters.
Contains(s, substr) ==
    \E k \in 0..(Len(s) - Len(substr)) :
        \A j \in 1..Len(substr) : s[k + j] = substr[j]

\* ------------------------------------------------------------------ inputs
\* One invocation of the filepath.Walk callback: the os.FileInfo handed to it
\* (IsDir, Name, Size), what ioutil.ReadFile will return for the path
\* (content, readable) and the err argument of the callback.
Entry(d, n, c, r, e) ==
    [isDir |-> d, name |-> n, content |-> c, size |-> Len(c), readable |-> r, err |-> e]

RootDir     == Entry(TRUE,  <<3, 1>>,    <<>>,        TRUE,  FALSE)
DirMatch    == Entry(TRUE,  <<1, 2>>,    <<>>,        TRUE,  FALSE)
FileBoth    == Entry(FALSE, <<3, 1, 2>>, <<1, 2, 3>>, TRUE,  FALSE)
FileUnread  == Entry(FALSE, <<1>>,       <<1>>,       FALSE, FALSE)
FileContent == Entry(FALSE, <<3>>,       <<2, 1, 2>>, TRUE,  FALSE)
FileEmpty   == Entry(FALSE, <<2, 1>>,    <<>>,        TRUE,  FALSE)
WalkError   == Entry(FALSE, <<>>,        <<>>,        FALSE, TRUE)

\* What lies below the root, in walk order; a tree holds a run of it.
Disk == <<DirMatch, FileBoth, FileUnread, FileContent, FileEmpty, WalkError>>

Run(start, len) == [k \in 1..len |-> Disk[((start + k - 2) % Len(Disk)) + 1]]

\* The sequence of callback invocations of one walk, in walk order.  The root
\* comes first; a root that is a file has no children.  <<>> stands for a
\* path at which nothing exists.
Trees ==
    {<<>>, <<FileBoth>>, <<WalkError>>}
    \cup {<<RootDir>> \o Run(start, len) : start \in 1..Len(Disk), len \in 0..(MaxEntries - 1)}

Keywords  == {<<>>, <<1>>, <<1, 2>>}
InputDirs == {<<>>, <<7>>}
MaxSizes  == {0, 1}

\* ------------------------------------------------------------------- state
VARIABLES
    inputDir, searchText, verbose, maxSize, help, tree,  \* flags and the disk
    status,        \* "running", "exit0", "exit1" (os.Exit / log.Fatal), "panic"
    mainPc,        \* main goroutine
    walkPc, walkIdx,   \* walker goroutine of walkFiles and its position
    readPc, sfPc, spPc,  \* readFile / searchFile / searchPath task of entry i
    cleanupPc,     \* cleanup goroutine
    wg,            \* sync.WaitGroup counter
    lockHeld,      \* sync.Mutex
    reg,           \* value loaded by the task inside a counter++
    numFound, fileVisit, dirFound, folderVisit,
    closeCount,    \* number of close(filesFound) executed
    doneClosed,    \* close(done) executed
    received,      \* results taken off filesFound by the consumer
    zeroRecv,      \* the consumer received from the closed channel
    nameSent, contentSent,  \* per entry: results delivered by searchPath / searchFile
    logs,          \* records handed to the logger
    printed        \* counters as read by summary

cfgVars   == <<inputDir, searchText, verbose, maxSize, help, tree>>
countVars == <<numFound, fileVisit, dirFound, folderVisit>>
taskVars  == <<readPc, sfPc, spPc>>
chanVars  == <<closeCount, doneClosed, received, zeroRecv, nameSent, contentSent>>
vars == <<cfgVars, status, mainPc, walkPc, walkIdx, taskVars, cleanupPc, wg,
          lockHeld, reg, countVars, chanVars, logs, printed>>

N == Len(tree)
Idx == 1..N

None == "none"

Init ==
    /\ inputDir \in InputDirs
    /\ searchText \in Keywords
    /\ verbose \in BOOLEAN
    /\ maxSize \in MaxSizes
    /\ help \in BOOLEAN
    /\ tree \in Trees
    /\ status = "running"
    /\ mainPc = "validate"
    /\ walkPc = None
    /\ walkIdx = 0
    /\ readPc = [i \in 1..Len(tree) |-> None]
    /\ sfPc = [i \in 1..Len(tree) |-> None]
    /\ spPc = [i \in 1..Len(tree) |-> None]
    /\ cleanupPc = None
    /\ wg = 0
    /\ lockHeld = FALSE
    /\ reg = 0
    /\ numFound = 0 /\ fileVisit = 0 /\ dirFound = 0 /\ folderVisit = 0
    /\ closeCount = 0
    /\ doneClosed = FALSE
    /\ received = 0
    /\ zeroRecv = FALSE
    /\ nameSent = [i \in 1..Len(tree) |-> 0]
    /\ contentSent = [i \in 1..Len(tree) |-> 0]
    /\ logs = {}
    /\ printed = <<>>


Running == status = "running"

\* ------------------------------------------------------------------- main
\* Variant of exists: the os.IsNotExist test is missing, every path exists.
existsAlways(path) == TRUE

\* exists(path): false only when os.Stat reports that nothing is there.
exists(path) == tree # <<>>

\* The ok flag computed by main from the flags.
ConfigOk ==
    /\ inputDir # <<>>
    /\ exists(inputDir)
    /\ searchText # <<>>

\* main up to `go walkFiles(...)`: -h and a bad configuration end in os.Exit(1).
MainValidate ==
    /\ Running
    /\ mainPc = "validate"
    /\ IF help \/ ~ConfigOk
       THEN /\ status' = "exit1"
            /\ mainPc' = "exited"
            /\ UNCHANGED <<walkPc, logs>>
       ELSE /\ mainPc' = "loop"
            /\ walkPc' = "start"
            /\ logs' = logs \cup {<<"Search started", "", <<>>, inputDir>>}
            /\ UNCHANGED status
    /\ UNCHANGED <<cfgVars, walkIdx, taskVars, cleanupPc, wg, lockHeld, reg,
                   countVars, chanVars, printed>>

\* ----------------------------------------------------------------- walker
\* Variant of UnderCeiling: a file of exactly the ceiling is still read.
UnderCeilingInclusive(e) == e.size <= maxSize * BytesPerMB

\* The ceiling test of the walker callback.
UnderCeiling(e) == e.size < maxSize * BytesPerMB

\* walkFiles: wg.Add(1) for the walking goroutine, then filepath.Walk starts.
WalkFilesAdd ==
    /\ Running
    /\ walkPc = "start"
    /\ wg' = wg + 1
    /\ walkPc' = "callback"
    /\ walkIdx' = 1
    /\ UNCHANGED <<cfgVars, status, mainPc, taskVars, cleanupPc, lockHeld, reg,
                   countVars, chanVars, logs, printed>>

\* Variant of WalkCallback: the call of fileCount() is missing, a file goes
\* straight to the size test.
WalkCallbackNoFileCount ==
    /\ Running
    /\ walkPc = "callback"
    /\ walkIdx <= N
    /\ LET e == tree[walkIdx] IN
       IF e.err
       THEN /\ status' = "exit1"
            /\ UNCHANGED walkPc
       ELSE /\ walkPc' = IF ~e.isDir THEN "sizeCheck" ELSE "folderCount"
            /\ UNCHANGED status
    /\ UNCHANGED <<cfgVars, mainPc, walkIdx, taskVars, cleanupPc, wg, lockHeld, reg,
                   countVars, chanVars, logs, printed>>

\* Variant of WalkCallback: an entry handed over with an error is skipped
\* (the callback returns nil) and the walk goes on.
WalkCallbackSkipOnError ==
    /\ Running
    /\ walkPc = "callback"
    /\ walkIdx <= N
    /\ LET e == tree[walkIdx] IN
       IF e.err
       THEN /\ walkIdx' = walkIdx + 1
            /\ UNCHANGED walkPc
       ELSE /\ walkPc' = IF ~e.isDir THEN "fileCount" ELSE "folderCount"
            /\ UNCHANGED walkIdx
    /\ UNCHANGED <<cfgVars, status, mainPc, taskVars, cleanupPc, wg, lockHeld, reg,
                   countVars, chanVars, logs, printed>>

\* Variant of WalkCallback: folderCount() is reached through the file branch
\* only, a directory goes straight to the dispatch of searchPath.
WalkCallbackFolderCountInFileBranch ==
    /\ Running
    /\ walkPc = "callback"
    /\ walkIdx <= N
    /\ LET e == tree[walkIdx] IN
       IF e.err
       THEN /\ status' = "exit1"
            /\ UNCHANGED walkPc
       ELSE /\ walkPc' = IF ~e.isDir THEN "fileCount" ELSE "goSearchPath"
            /\ UNCHANGED status
    /\ UNCHANGED <<cfgVars, mainPc, walkIdx, taskVars, cleanupPc, wg, lockHeld, reg,
                   countVars, chanVars, logs, printed>>

\* Entry of the callback: errorCheck(err) is log.Fatal on an error.  A file goes
\* through fileCount() and the size test first; folderCount() follows for
\* every entry, file or directory.
WalkCallback ==
    /\ Running
    /\ walkPc = "callback"
    /\ walkIdx <= N
    /\ LET e == tree[walkIdx] IN
       IF e.err
       THEN /\ status' = "exit1"
            /\ UNCHANGED walkPc
       ELSE /\ walkPc' = IF ~e.isDir THEN "fileCount" ELSE "folderCount"
            /\ UNCHANGED status
    /\ UNCHANGED <<cfgVars, mainPc, walkIdx, taskVars, cleanupPc, wg, lockHeld, reg,
                   countVars, chanVars, logs, printed>>

\* fileCount(): lock.Lock() and the load of fileVisit++.
WalkFileCountLock ==
    /\ Running
    /\ walkPc = "fileCount"
    /\ ~lockHeld
    /\ lockHeld' = TRUE
    /\ reg' = fileVisit
    /\ walkPc' = "fileCountCs"
    /\ UNCHANGED <<cfgVars, status, mainPc, walkIdx, taskVars, cleanupPc, wg,
                   countVars, chanVars, logs, printed>>

\* fileCount(): the store of fileVisit++ and lock.Unlock().
WalkFileCountUnlock ==
    /\ Running
    /\ walkPc = "fileCountCs"
    /\ fileVisit' = reg + 1
    /\ lockHeld' = FALSE
    /\ reg' = 0
    /\ walkPc' = "sizeCheck"
    /\ UNCHANGED <<cfgVars, status, mainPc, walkIdx, taskVars, cleanupPc, wg,
                   numFound, dirFound, folderVisit, chanVars, logs, printed>>

\* Variant of WalkSizeCheck: the size-skip Warn is logged only under -v.
WalkSizeCheckVerboseOnly ==
    /\ Running
    /\ walkPc = "sizeCheck"
    /\ LET e == tree[walkIdx] IN
       /\ IF UnderCeiling(e)
          THEN /\ wg' = wg + 1
               /\ readPc' = [readPc EXCEPT ![walkIdx] = "run"]
               /\ UNCHANGED logs
          ELSE /\ logs' = IF verbose
                          THEN logs \cup {<<"Skip file too large", "file", e.name, <<walkIdx>>>>}
                          ELSE logs
               /\ UNCHANGED <<wg, readPc>>
       /\ walkPc' = "folderCount"
    /\ UNCHANGED <<cfgVars, status, mainPc, walkIdx, sfPc, spPc, cleanupPc, lockHeld,
                   reg, countVars, chanVars, printed>>

\* Size test: wg.Add(1); go readFile(...) below the ceiling, a Warn otherwise.
WalkSizeCheck ==
    /\ Running
    /\ walkPc = "sizeCheck"
    /\ LET e == tree[walkIdx] IN
       /\ IF UnderCeiling(e)
          THEN /\ wg' = wg + 1
               /\ readPc' = [readPc EXCEPT ![walkIdx] = "run"]
               /\ UNCHANGED logs
          ELSE /\ logs' = logs \cup {<<"Skip file too large", "file", e.name, <<walkIdx>>>>}
               /\ UNCHANGED <<wg, readPc>>
       /\ walkPc' = "folderCount"
    /\ UNCHANGED <<cfgVars, status, mainPc, walkIdx, sfPc, spPc, cleanupPc, lockHeld,
                   reg, countVars, chanVars, printed>>

\* folderCount(): lock.Lock() and the load of folderVisit++.
WalkFolderCountLock ==
    /\ Running
    /\ walkPc = "folderCount"
    /\ ~lockHeld
    /\ lockHeld' = TRUE
    /\ reg' = folderVisit
    /\ walkPc' = "folderCountCs"
    /\ UNCHANGED <<cfgVars, status, mainPc, walkIdx, taskVars, cleanupPc, wg,
                   countVars, chanVars, logs, printed>>

\* folderCount(): the store of folderVisit++ and lock.Unlock().
WalkFolderCountUnlock ==
    /\ Running
    /\ walkPc = "folderCountCs"
    /\ folderVisit' = reg + 1
    /\ lockHeld' = FALSE
    /\ reg' = 0
    /\ walkPc' = "goSearchPath"
    /\ UNCHANGED <<cfgVars, status, mainPc, walkIdx, taskVars, cleanupPc, wg,
                   numFound, fileVisit, dirFound, chanVars, logs, printed>>

\* Variant of WalkGoSearchPath: the task is started without wg.Add(1).
WalkGoSearchPathUntracked ==
    /\ Running
    /\ walkPc = "goSearchPath"
    /\ spPc' = [spPc EXCEPT ![walkIdx] = "run"]
    /\ walkIdx' = walkIdx + 1
    /\ walkPc' = "callback"
    /\ UNCHANGED <<cfgVars, status, mainPc, readPc, sfPc, cleanupPc, wg, lockHeld, reg,
                   countVars, chanVars, logs, printed>>

\* Variant of WalkGoSearchPath: only directories get a searchPath task.
WalkGoSearchPathDirsOnly ==
    /\ Running
    /\ walkPc = "goSearchPath"
    /\ IF tree[walkIdx].isDir
       THEN /\ wg' = wg + 1
            /\ spPc' = [spPc EXCEPT ![walkIdx] = "run"]
       ELSE UNCHANGED <<wg, spPc>>
    /\ walkIdx' = walkIdx + 1
    /\ walkPc' = "callback"
    /\ UNCHANGED <<cfgVars, status, mainPc, readPc, sfPc, cleanupPc, lockHeld, reg,
                   countVars, chanVars, logs, printed>>

\* wg.Add(1); go searchPath(...); return nil: Walk moves to the next entry.
WalkGoSearchPath ==
    /\ Running
    /\ walkPc = "goSearchPath"
    /\ wg' = wg + 1
    /\ spPc' = [spPc EXCEPT ![walkIdx] = "run"]
    /\ walkIdx' = walkIdx + 1
    /\ walkPc' = "callback"
    /\ UNCHANGED <<cfgVars, status, mainPc, readPc, sfPc, cleanupPc, lockHeld, reg,
                   countVars, chanVars, logs, printed>>

\* filepath.Walk has returned: go cleanup(...); errorCheck(nil).
WalkLaunchCleanup ==
    /\ Running
    /\ walkPc = "callback"
    /\ walkIdx > N
    /\ cleanupPc' = "wait"
    /\ walkPc' = "ret"
    /\ UNCHANGED <<cfgVars, status, mainPc, walkIdx, taskVars, wg, lockHeld, reg,
                   countVars, chanVars, logs, printed>>

\* The walking goroutine returns: deferred wg.Done().
WalkDone ==
    /\ Running
    /\ walkPc = "ret"
    /\ wg' = wg - 1
    /\ walkPc' = "end"
    /\ UNCHANGED <<cfgVars, status, mainPc, walkIdx, taskVars, cleanupPc, lockHeld, reg,
                   countVars, chanVars, logs, printed>>

\* --------------------------------------------------------------- consumer
\* The walkresult built by searchFile / searchPath for entry i.
MatchResult(i, found) ==
    [path |-> <<i>>, name |-> tree[i].name, found |-> found,
     isDir |-> tree[i].isDir, size |-> tree[i].size]

\* The zero walkresult a receive from the closed channel yields.
ZeroResult ==
    [path |-> <<>>, name |-> <<>>, found |-> FALSE, isDir |-> FALSE, size |-> 0]

\* Variant of ConsumerLogs: the len(print.path) > 0 test is missing.
ConsumerLogsNoPathCheck(print) ==
    (IF verbose /\ print.found = FALSE
     THEN {<<"Match not found", IF print.isDir THEN "folder" ELSE "file",
             print.name, print.path>>}
     ELSE {})
    \cup
    (IF print.found = TRUE
     THEN {<<"Match found", IF print.isDir THEN "folder" ELSE "file",
             print.name, print.path>>}
     ELSE {})

\* Body of `case print := <-filesFound`: the records the consumer logs.
ConsumerLogs(print) ==
    (IF Len(print.path) > 0 /\ verbose /\ print.found = FALSE
     THEN {<<"Match not found", IF print.isDir THEN "folder" ELSE "file",
             print.name, print.path>>}
     ELSE {})
    \cup
    (IF print.found = TRUE
     THEN {<<"Match found", IF print.isDir THEN "folder" ELSE "file",
             print.name, print.path>>}
     ELSE {})

\* `filesFound <- r` by a task meeting `print := <-filesFound` of the consumer
\* (the channel is unbuffered); a send on the closed channel panics.
Deliver(r) ==
    IF closeCount > 0
    THEN /\ status' = "panic"
         /\ UNCHANGED <<received, logs>>
    ELSE /\ mainPc = "loop"
         /\ received' = received + 1
         /\ logs' = logs \cup ConsumerLogs(r)
         /\ UNCHANGED status

\* The consumer's select takes the filesFound case on the closed channel.
RecvClosed ==
    /\ Running
    /\ mainPc = "loop"
    /\ closeCount > 0
    /\ zeroRecv' = TRUE
    /\ logs' = logs \cup ConsumerLogs(ZeroResult)
    /\ UNCHANGED <<cfgVars, status, mainPc, walkPc, walkIdx, taskVars, cleanupPc, wg,
                   lockHeld, reg, countVars, closeCount, doneClosed, received,
                   nameSent, contentSent, printed>>

\* --------------------------------------------------------------- readFile
\* Variant of ReadFile: searchFile is started without wg.Add(1).
ReadFileUntrackedSearch(i) ==
    /\ Running
    /\ readPc[i] = "run"
    /\ IF tree[i].readable
       THEN /\ sfPc' = [sfPc EXCEPT ![i] = "run"]
            /\ UNCHANGED logs
       ELSE /\ logs' = IF verbose
                       THEN logs \cup {<<"File cannot be read", "file", tree[i].name, <<i>>>>}
                       ELSE logs
            /\ UNCHANGED sfPc
    /\ readPc' = [readPc EXCEPT ![i] = "ret"]
    /\ UNCHANGED <<cfgVars, status, mainPc, walkPc, walkIdx, spPc, cleanupPc, wg, lockHeld,
                   reg, countVars, chanVars, printed>>

\* Variant of ReadFile: a failed read goes through errorCheck(err).
ReadFileFatalOnError(i) ==
    /\ Running
    /\ readPc[i] = "run"
    /\ IF tree[i].readable
       THEN /\ wg' = wg + 1
            /\ sfPc' = [sfPc EXCEPT ![i] = "run"]
            /\ UNCHANGED status
       ELSE /\ status' = "exit1"
            /\ UNCHANGED <<wg, sfPc>>
    /\ readPc' = [readPc EXCEPT ![i] = "ret"]
    /\ UNCHANGED <<cfgVars, mainPc, walkPc, walkIdx, spPc, cleanupPc, lockHeld,
                   reg, countVars, chanVars, logs, printed>>

\* ioutil.ReadFile, then either the early return or wg.Add(1); go searchFile.
ReadFile(i) ==
    /\ Running
    /\ readPc[i] = "run"
    /\ IF tree[i].readable
       THEN /\ wg' = wg + 1
            /\ sfPc' = [sfPc EXCEPT ![i] = "run"]
            /\ UNCHANGED logs
       ELSE /\ logs' = IF verbose
                       THEN logs \cup {<<"File cannot be read", "file", tree[i].name, <<i>>>>}
                       ELSE logs
            /\ UNCHANGED <<wg, sfPc>>
    /\ readPc' = [readPc EXCEPT ![i] = "ret"]
    /\ UNCHANGED <<cfgVars, status, mainPc, walkPc, walkIdx, spPc, cleanupPc, lockHeld,
                   reg, countVars, chanVars, printed>>

\* Variant of ReadFileDone: wg.Done() is not deferred and sits after the
\* start of searchFile, so the early return on a failed read skips it.
ReadFileDoneNotDeferred(i) ==
    /\ Running
    /\ readPc[i] = "ret"
    /\ wg' = IF tree[i].readable THEN wg - 1 ELSE wg
    /\ readPc' = [readPc EXCEPT ![i] = "end"]
    /\ UNCHANGED <<cfgVars, status, mainPc, walkPc, walkIdx, sfPc, spPc, cleanupPc,
                   lockHeld, reg, countVars, chanVars, logs, printed>>

\* readFile returns: deferred wg.Done().
ReadFileDone(i) ==
    /\ Running
    /\ readPc[i] = "ret"
    /\ wg' = wg - 1
    /\ readPc' = [readPc EXCEPT ![i] = "end"]
    /\ UNCHANGED <<cfgVars, status, mainPc, walkPc, walkIdx, sfPc, spPc, cleanupPc,
                   lockHeld, reg, countVars, chanVars, logs, printed>>

\* -------------------------------------------------------------- searchFile
\* Variant of SearchFileSearch: numFound++ without lock.Lock().
SearchFileSearchNoLock(i) ==
    /\ Running
    /\ sfPc[i] = "run"
    /\ IF Contains(tree[i].content, searchText)
       THEN /\ reg' = numFound
            /\ sfPc' = [sfPc EXCEPT ![i] = "cs"]
       ELSE /\ sfPc' = [sfPc EXCEPT ![i] = "send"]
            /\ UNCHANGED reg
    /\ UNCHANGED <<cfgVars, status, mainPc, walkPc, walkIdx, readPc, spPc, cleanupPc, wg,
                   lockHeld, countVars, chanVars, logs, printed>>

\* strings.Contains on the content; on a match lock.Lock() and the load of
\* numFound++, otherwise straight to the send.
SearchFileSearch(i) ==
    /\ Running
    /\ sfPc[i] = "run"
    /\ IF Contains(tree[i].content, searchText)
       THEN /\ ~lockHeld
            /\ lockHeld' = TRUE
            /\ reg' = numFound
            /\ sfPc' = [sfPc EXCEPT ![i] = "cs"]
       ELSE /\ sfPc' = [sfPc EXCEPT ![i] = "send"]
            /\ UNCHANGED <<lockHeld, reg>>
    /\ UNCHANGED <<cfgVars, status, mainPc, walkPc, walkIdx, readPc, spPc, cleanupPc, wg,
                   countVars, chanVars, logs, printed>>

\* The store of numFound++ and lock.Unlock().
SearchFileUnlock(i) ==
    /\ Running
    /\ sfPc[i] = "cs"
    /\ numFound' = reg + 1
    /\ lockHeld' = FALSE
    /\ reg' = 0
    /\ sfPc' = [sfPc EXCEPT ![i] = "send"]
    /\ UNCHANGED <<cfgVars, status, mainPc, walkPc, walkIdx, readPc, spPc, cleanupPc, wg,
                   fileVisit, dirFound, folderVisit, chanVars, logs, printed>>

\* filesFound <- walkresult{...} of searchFile.
SearchFileSend(i) ==
    /\ Running
    /\ sfPc[i] = "send"
    /\ Deliver(MatchResult(i, Contains(tree[i].content, searchText)))
    /\ contentSent' = [contentSent EXCEPT ![i] = @ + 1]
    /\ sfPc' = [sfPc EXCEPT ![i] = "ret"]
    /\ UNCHANGED <<cfgVars, mainPc, walkPc, walkIdx, readPc, spPc, cleanupPc, wg,
                   lockHeld, reg, countVars, closeCount, doneClosed, zeroRecv,
                   nameSent, printed>>

\* searchFile returns: deferred wg.Done().
SearchFileDone(i) ==
    /\ Running
    /\ sfPc[i] = "ret"
    /\ wg' = wg - 1
    /\ sfPc' = [sfPc EXCEPT ![i] = "end"]
    /\ UNCHANGED <<cfgVars, status, mainPc, walkPc, walkIdx, readPc, spPc, cleanupPc,
                   lockHeld, reg, countVars, chanVars, logs, printed>>

\* -------------------------------------------------------------- searchPath
\* Variant of SearchPathSearch: the counter is incremented without lock.Lock().
SearchPathSearchNoLock(i) ==
    /\ Running
    /\ spPc[i] = "run"
    /\ IF Contains(tree[i].name, searchText)
       THEN /\ reg' = IF tree[i].isDir THEN dirFound ELSE numFound
            /\ spPc' = [spPc EXCEPT ![i] = "cs"]
       ELSE /\ spPc' = [spPc EXCEPT ![i] = "send"]
            /\ UNCHANGED reg
    /\ UNCHANGED <<cfgVars, status, mainPc, walkPc, walkIdx, readPc, sfPc, cleanupPc, wg,
                   lockHeld, countVars, chanVars, logs, printed>>

\* strings.Contains on the base name; on a match lock.Lock() and the load of
\* dirFound++ (directory) or numFound++ (file).
SearchPathSearch(i) ==
    /\ Running
    /\ spPc[i] = "run"
    /\ IF Contains(tree[i].name, searchText)
       THEN /\ ~lockHeld
            /\ lockHeld' = TRUE
            /\ reg' = IF tree[i].isDir THEN dirFound ELSE numFound
            /\ spPc' = [spPc EXCEPT ![i] = "cs"]
       ELSE /\ spPc' = [spPc EXCEPT ![i] = "send"]
            /\ UNCHANGED <<lockHeld, reg>>
    /\ UNCHANGED <<cfgVars, status, mainPc, walkPc, walkIdx, readPc, sfPc, cleanupPc, wg,
                   countVars, chanVars, logs, printed>>

\* The store of dirFound++ / numFound++ and lock.Unlock().
SearchPathUnlock(i) ==
    /\ Running
    /\ spPc[i] = "cs"
    /\ IF tree[i].isDir
       THEN dirFound' = reg + 1 /\ UNCHANGED numFound
       ELSE numFound' = reg + 1 /\ UNCHANGED dirFound
    /\ lockHeld' = FALSE
    /\ reg' = 0
    /\ spPc' = [spPc EXCEPT ![i] = "send"]
    /\ UNCHANGED <<cfgVars, status, mainPc, walkPc, walkIdx, readPc, sfPc, cleanupPc, wg,
                   fileVisit, folderVisit, chanVars, logs, printed>>

\* filesFound <- walkresult{...} of searchPath.
SearchPathSend(i) ==
    /\ Running
    /\ spPc[i] = "send"
    /\ Deliver(MatchResult(i, Contains(tree[i].name, searchText)))
    /\ nameSent' = [nameSent EXCEPT ![i] = @ + 1]
    /\ spPc' = [spPc EXCEPT ![i] = "ret"]
    /\ UNCHANGED <<cfgVars, mainPc, walkPc, walkIdx, readPc, sfPc, cleanupPc, wg,
                   lockHeld, reg, countVars, closeCount, doneClosed, zeroRecv,
                   contentSent, printed>>

\* searchPath returns: deferred wg.Done().
SearchPathDone(i) ==
    /\ Running
    /\ spPc[i] = "ret"
    /\ wg' = wg - 1
    /\ spPc' = [spPc EXCEPT ![i] = "end"]
    /\ UNCHANGED <<cfgVars, status, mainPc, walkPc, walkIdx, readPc, sfPc, cleanupPc,
                   lockHeld, reg, countVars, chanVars, logs, printed>>

\* ----------------------------------------------------------------- cleanup
\* Variant of WaitReturns: the wait is off by one.
WaitReturnsEarly == wg <= 1

\* wg.Wait() returns when the counter is zero.
WaitReturns == wg = 0

CleanupWait ==
    /\ Running
    /\ cleanupPc = "wait"
    /\ WaitReturns
    /\ cleanupPc' = "close"
    /\ UNCHANGED <<cfgVars, status, mainPc, walkPc, walkIdx, taskVars, wg, lockHeld, reg,
                   countVars, chanVars, logs, printed>>

\* close(filesFound); closing a closed channel panics.
CleanupClose ==
    /\ Running
    /\ cleanupPc = "close"
    /\ closeCount' = closeCount + 1
    /\ status' = IF closeCount > 0 THEN "panic" ELSE status
    /\ cleanupPc' = "sendDone"
    /\ UNCHANGED <<cfgVars, mainPc, walkPc, walkIdx, taskVars, wg, lockHeld, reg,
                   countVars, doneClosed, received, zeroRecv, nameSent, contentSent,
                   logs, printed>>

\* Variant of DoneSignal: the consumer breaks out of the loop on the signal
\* without sending the acknowledgment.
DoneSignalNoAck ==
    /\ Running
    /\ cleanupPc = "sendDone"
    /\ mainPc = "loop"
    /\ cleanupPc' = "recvAck"
    /\ mainPc' = "summary"
    /\ UNCHANGED <<cfgVars, status, walkPc, walkIdx, taskVars, wg, lockHeld, reg,
                   countVars, chanVars, logs, printed>>

\* `done <- true` of cleanup meeting `case <-done` of the consumer's select.
DoneSignal ==
    /\ Running
    /\ cleanupPc = "sendDone"
    /\ mainPc = "loop"
    /\ cleanupPc' = "recvAck"
    /\ mainPc' = "ack"
    /\ UNCHANGED <<cfgVars, status, walkPc, walkIdx, taskVars, wg, lockHeld, reg,
                   countVars, chanVars, logs, printed>>

\* `done <- true` of the consumer meeting `<-done` of cleanup; break loop.
DoneAck ==
    /\ Running
    /\ mainPc = "ack"
    /\ cleanupPc = "recvAck"
    /\ mainPc' = "summary"
    /\ cleanupPc' = "closeDone"
    /\ UNCHANGED <<cfgVars, status, walkPc, walkIdx, taskVars, wg, lockHeld, reg,
                   countVars, chanVars, logs, printed>>

\* close(done); return.
CleanupCloseDone ==
    /\ Running
    /\ cleanupPc = "closeDone"
    /\ doneClosed' = TRUE
    /\ cleanupPc' = "end"
    /\ UNCHANGED <<cfgVars, status, mainPc, walkPc, walkIdx, taskVars, wg, lockHeld, reg,
                   countVars, closeCount, received, zeroRecv, nameSent, contentSent,
                   logs, printed>>

\* ----------------------------------------------------------- end of main
\* summary(searchText, inputDir) reads the four counters.
MainSummary ==
    /\ Running
    /\ mainPc = "summary"
    /\ printed' = [filesChecked |-> fileVisit, foldersChecked |-> folderVisit,
                   filesFound |-> numFound, foldersFound |-> dirFound]
    /\ logs' = logs \cup {<<"Search completed", "", searchText, inputDir>>}
    /\ mainPc' = "ret"
    /\ UNCHANGED <<cfgVars, status, walkPc, walkIdx, taskVars, cleanupPc, wg, lockHeld,
                   reg, countVars, chanVars>>

\* main returns: the process ends with status 0, whatever the other
\* goroutines are doing.
MainReturn ==
    /\ Running
    /\ mainPc = "ret"
    /\ mainPc' = "exited"
    /\ status' = "exit0"
    /\ UNCHANGED <<cfgVars, walkPc, walkIdx, taskVars, cleanupPc, wg, lockHeld, reg,
                   countVars, chanVars, logs, printed>>

\* ------------------------------------------------------------ specification
Walker ==
    \/ WalkFilesAdd
    \/ WalkCallback
    \/ WalkFileCountLock
    \/ WalkFileCountUnlock
    \/ WalkSizeCheck
    \/ WalkFolderCountLock
    \/ WalkFolderCountUnlock
    \/ WalkGoSearchPath
    \/ WalkLaunchCleanup
    \/ WalkDone

Tasks ==
    \/ \E i \in Idx : ReadFile(i)
    \/ \E i \in Idx : ReadFileDone(i)
    \/ \E i \in Idx : SearchFileSearch(i)
    \/ \E i \in Idx : SearchFileUnlock(i)
    \/ \E i \in Idx : SearchFileSend(i)
    \/ \E i \in Idx : SearchFileDone(i)
    \/ \E i \in Idx : SearchPathSearch(i)
    \/ \E i \in Idx : SearchPathUnlock(i)
    \/ \E i \in Idx : SearchPathSend(i)
    \/ \E i \in Idx : SearchPathDone(i)

Cleanup ==
    \/ CleanupWait
    \/ CleanupClose
    \/ DoneSignal
    \/ DoneAck
    \/ CleanupCloseDone

Main ==
    \/ MainValidate
    \/ RecvClosed
    \/ MainSummary
    \/ MainReturn

Next == Walker \/ Tasks \/ Cleanup \/ Main

Spec == Init /\ [][Next]_vars

\* The Go scheduler runs every runnable goroutine eventually, and a select
\* with a ready case that stays ready eventually takes it.
FairSpec ==
    /\ Spec
    /\ WF_vars(Walker)
    /\ WF_vars(Tasks)
    /\ WF_vars(Cleanup)
    /\ WF_vars(Main)

\* ---------------------------------------------------------------- helpers
Ended(pc) == pc \in {None, "end"}

AllTasksEnded ==
    \A i \in Idx : Ended(readPc[i]) /\ Ended(sfPc[i]) /\ Ended(spPc[i])

\* The consumer has left its loop (or never entered it).
LeftLoop == mainPc \in {"summary", "ret", "exited"}

\* The summary has been produced.
Completed == printed # <<>>

\* Results whose send statement a task has reached.
Emitted ==
    Cardinality({i \in Idx : spPc[i] \in {"send", "ret", "end"}})
    + Cardinality({i \in Idx : sfPc[i] \in {"send", "ret", "end"}})

CountersNow ==
    [filesChecked |-> fileVisit, foldersChecked |-> folderVisit,
     filesFound |-> numFound, foldersFound |-> dirFound]

\* A configuration that starts a search whose walk meets no error.
CleanRun == ConfigOk /\ ~help /\ \A i \in Idx : ~tree[i].err

\* ------------------------------------------------------------------ claims

\* C1: filesFound is closed at most once (exactly once when the search
\* completes), only by cleanup's close step, and only at a moment when wg is
\* zero; once it is closed the walker has returned and no readFile, searchFile
\* or searchPath task is running or about to send, and no send hits the
\* closed channel.
C1_ClosedOnceAfterAllWork ==
    /\ [](closeCount <= 1 /\ status # "panic")
    /\ [](closeCount = 1 => wg = 0 /\ walkPc = "end" /\ AllTasksEnded)
    /\ []((mainPc \in {"ack", "summary", "ret"} \/ status = "exit0") => closeCount = 1)
    /\ [][closeCount' # closeCount =>
            cleanupPc = "close" /\ wg = 0 /\ closeCount' = closeCount + 1]_vars

C1_Witness ==
    /\ closeCount = 1
    /\ received >= 3
    /\ cleanupPc = "sendDone"

\* C2: from every configuration that starts a search and whose walk meets no
\* error, fair scheduling leads to the end of the process with status 0, the
\* summary printed, every task ended, the channel closed and done signalled;
\* and no running state is stuck.
C2_Terminates ==
    /\ CleanRun ~> (/\ status = "exit0"
                    /\ mainPc = "exited"
                    /\ Completed
                    /\ closeCount = 1
                    /\ cleanupPc \in {"closeDone", "end"}
                    /\ walkPc = "end"
                    /\ AllTasksEnded
                    /\ wg = 0)
    /\ [](Running => ENABLED <<Next>>_vars)

C2_Witness ==
    /\ status = "exit0"
    /\ Completed
    /\ N = 2
    /\ \E i \in Idx : sfPc[i] = "end"

\* C3: once the consumer has left its loop no counter changes any more, and
\* the values summary reads are the values the counters hold with every task
\* ended.
C3_SummaryReadsFinalCounters ==
    /\ [][LeftLoop => countVars' = countVars]_vars
    /\ [](Completed => printed = CountersNow /\ AllTasksEnded /\ walkPc = "end")

C3_Witness ==
    /\ mainPc = "ret"
    /\ printed.filesFound = 2
    /\ printed.foldersFound = 1

\* C4: when the consumer has left its loop every result a task has reached
\* its send with has been received, once: the consumer's receive count equals
\* the number of results emitted and the number of results delivered.
C4_AllResultsReceived ==
    /\ \A i \in Idx : nameSent[i] <= 1 /\ contentSent[i] <= 1
    /\ LeftLoop =>
         /\ received = Emitted
         /\ \A i \in Idx : nameSent[i] = (IF spPc[i] = "end" THEN 1 ELSE 0)
         /\ \A i \in Idx : contentSent[i] = (IF sfPc[i] = "end" THEN 1 ELSE 0)

C4_Witness ==
    /\ mainPc = "summary"
    /\ received = 3
    /\ Emitted = 3

\* Entries of each kind handed to the callback.
Files == {i \in Idx : ~tree[i].isDir}
Dirs  == {i \in Idx : tree[i].isDir}

\* C5: when the search has completed, filesVisited is the number of files
\* enumerated and foldersVisited the number of directories enumerated, so
\* their sum is the number of entries enumerated.
C5_VisitedCountsByKind ==
    Completed =>
        /\ printed.filesChecked = Cardinality(Files)
        /\ printed.foldersChecked = Cardinality(Dirs)
        /\ printed.filesChecked + printed.foldersChecked = N

\* C6: in every state numFound is at most fileVisit.
C6_FilesMatchedAtMostVisited == numFound <= fileVisit

\* C7: in every state dirFound is at most folderVisit.
C7_FoldersMatchedAtMostVisited == dirFound <= folderVisit

C7_Witness ==
    /\ dirFound = 2
    /\ folderVisit = 2

\* The files whose name contains the keyword, or whose content is read (size
\* below the ceiling, read succeeds) and contains it.
MatchingFiles ==
    {i \in Files :
        \/ Contains(tree[i].name, searchText)
        \/ /\ tree[i].size < maxSize * BytesPerMB
           /\ tree[i].readable
           /\ Contains(tree[i].content, searchText)}

MatchingDirs == {i \in Dirs : Contains(tree[i].name, searchText)}

\* C8: when the search has completed, filesMatched is the number of files
\* whose content (when read) or name contains the keyword, each counted once,
\* and foldersMatched the number of directories whose name contains it.
C8_MatchedCounts ==
    Completed =>
        /\ printed.filesFound = Cardinality(MatchingFiles)
        /\ printed.foldersFound = Cardinality(MatchingDirs)

\* C9: no entry ever gets more than one name result, and when the search has
\* completed every entry handed to the callback has got exactly one, whatever
\* its kind, size, readability and whether the name matches.
C9_OneNameResultPerEntry ==
    /\ \A i \in Idx : nameSent[i] <= 1
    /\ Completed => \A i \in Idx : nameSent[i] = 1

C9_Witness ==
    /\ Completed
    /\ \E i \in Idx : ~tree[i].readable /\ nameSent[i] = 1 /\ readPc[i] = "end"
    /\ \E i \in Idx : ~Contains(tree[i].name, searchText) /\ nameSent[i] = 1

\* C10 as stated: when the search has completed, every file below the ceiling
\* has exactly one content result, every file at or above it has none, and no
\* directory has one.
C10_ContentResultBySizeOnly ==
    Completed =>
        \A i \in Idx :
            contentSent[i] =
                (IF ~tree[i].isDir /\ tree[i].size < maxSize * BytesPerMB THEN 1 ELSE 0)

\* C10 amended: when the search has completed, a file below the ceiling has
\* exactly one content result if its read succeeded and none if it failed;
\* every file at or above the ceiling has none, and no directory has one.
C10_ContentResultBySizeAndRead ==
    /\ \A i \in Idx : contentSent[i] <= 1
    /\ Completed =>
        \A i \in Idx :
            contentSent[i] =
                (IF /\ ~tree[i].isDir
                    /\ tree[i].size < maxSize * BytesPerMB
                    /\ tree[i].readable
                 THEN 1 ELSE 0)

C10_Witness ==
    /\ Completed
    /\ \E i \in Files : tree[i].size = maxSize * BytesPerMB /\ contentSent[i] = 0
    /\ \E i \in Dirs : contentSent[i] = 0

\* C11: the step of readFile on which the read fails changes no counter, no
\* channel state and not wg, and does not end the process; readFile's return
\* then decrements wg; the file never gets a content result; and a run whose
\* walk meets no error goes on to normal completion, where every entry has its
\* name result and every other file below the ceiling its content result.
C11_ReadFailureIsSoft ==
    /\ [][\A i \in Idx :
            (readPc[i] = "run" /\ ~tree[i].readable /\ readPc'[i] # "run") =>
                /\ readPc'[i] = "ret"
                /\ countVars' = countVars
                /\ chanVars' = chanVars
                /\ wg' = wg
                /\ sfPc' = sfPc
                /\ status' = status]_vars
    /\ [][\A i \in Idx :
            (readPc[i] = "ret" /\ readPc'[i] # "ret") =>
                /\ readPc'[i] = "end"
                /\ wg' = wg - 1
                /\ countVars' = countVars]_vars
    /\ [](\A i \in Idx : ~tree[i].readable => sfPc[i] = None /\ contentSent[i] = 0)
    /\ [](Completed =>
            \A j \in Idx :
                /\ nameSent[j] = 1
                /\ tree[j].readable =>
                     contentSent[j] =
                        (IF ~tree[j].isDir /\ tree[j].size < maxSize * BytesPerMB
                         THEN 1 ELSE 0))
    /\ (CleanRun /\ \E i \in Idx : readPc[i] = "ret" /\ ~tree[i].readable)
         ~> (status = "exit0" /\ Completed /\ closeCount = 1 /\ wg = 0)

C11_Witness ==
    /\ status = "exit0"
    /\ Completed
    /\ closeCount = 1
    /\ \E i \in Idx : ~tree[i].readable /\ readPc[i] = "end" /\ contentSent[i] = 0

\* The path is empty, nothing exists at it, or the keyword is empty.
BadConfig == inputDir = <<>> \/ tree = <<>> \/ searchText = <<>>

\* C12: with a missing root, an empty path or an empty keyword no walker,
\* task or cleanup is ever started, wg stays zero, nothing is received or
\* logged, the four counters stay zero, no summary is printed, and once main
\* has validated the flags the process has ended with exit status 1.
C12_BadConfigRefused ==
    BadConfig =>
        /\ walkPc = None
        /\ cleanupPc = None
        /\ \A i \in Idx : readPc[i] = None /\ sfPc[i] = None /\ spPc[i] = None
        /\ wg = 0
        /\ received = 0
        /\ closeCount = 0
        /\ logs = {}
        /\ numFound = 0 /\ fileVisit = 0 /\ dirFound = 0 /\ folderVisit = 0
        /\ printed = <<>>
        /\ status \in {"running", "exit1"}
        /\ mainPc # "validate" => status = "exit1" /\ mainPc = "exited"

C12_Witness ==
    /\ tree = <<>>
    /\ inputDir # <<>>
    /\ searchText # <<>>
    /\ ~help
    /\ status = "exit1"

\* A search is started and the callback is handed an error for some entry.
HasWalkError == ConfigOk /\ ~help /\ \E i \in Idx : tree[i].err

\* C13: the walker never moves past an entry handed over with an error: that
\* entry and every later one get no task and no count.  In such a run the
\* channel is never closed, cleanup never starts, the summary is never
\* printed and the exit status is never 0; under fair scheduling the run ends
\* with exit status 1.  An ended process (status 0 or 1) takes no further
\* step, so the two end states exclude each other and are never left.
C13_WalkErrorAborts ==
    /\ [][(walkPc = "callback" /\ walkIdx <= N /\ tree[walkIdx].err) =>
            (walkPc' = walkPc /\ walkIdx' = walkIdx)]_vars
    /\ [](\A i \in Idx : tree[i].err =>
            /\ walkIdx <= i
            /\ \A j \in i..N : readPc[j] = None /\ sfPc[j] = None /\ spPc[j] = None
            /\ folderVisit <= i - 1
            /\ fileVisit <= Cardinality({j \in 1..(i - 1) : ~tree[j].isDir}))
    /\ [](HasWalkError =>
            /\ printed = <<>>
            /\ status # "exit0"
            /\ mainPc \in {"validate", "loop"}
            /\ cleanupPc = None
            /\ closeCount = 0)
    /\ [](status \in {"running", "exit0", "exit1"})
    /\ [][status # "running" => vars' = vars]_vars
    /\ HasWalkError ~> (status = "exit1")

C13_Witness ==
    /\ status = "exit1"
    /\ N = 2
    /\ tree[2].err
    /\ walkIdx = 2
    /\ spPc[1] # None
    /\ folderVisit = 1

\* The counters a completed search ends with, as a function of the tree, the
\* keyword and the ceiling alone.
ExpectedCounters ==
    [filesChecked |-> Cardinality(Files),
     foldersChecked |-> N,
     filesFound |->
        Cardinality({i \in Files : Contains(tree[i].name, searchText)})
        + Cardinality({i \in Files : /\ tree[i].size < maxSize * BytesPerMB
                                     /\ Contains(tree[i].content, searchText)}),
     foldersFound |-> Cardinality(MatchingDirs)]

\* C14: with no read and no enumeration error, the four counters a completed
\* search ends with are determined by the tree, the keyword and the ceiling:
\* every interleaving of the walker, the tasks, cleanup and the consumer ends
\* with the same values.
C14_FinalCountersDeterministic ==
    (Completed /\ \A i \in Idx : tree[i].readable) =>
        /\ printed = ExpectedCounters
        /\ CountersNow = ExpectedCounters

C14_Witness ==
    /\ Completed
    /\ \A i \in Idx : tree[i].readable
    /\ N = 2
    /\ printed.filesFound = 2
    /\ printed.foldersChecked = 2
    /\ received = 3

\* Goroutines between lock.Lock() and lock.Unlock().
InCriticalSection ==
    (IF walkPc \in {"fileCountCs", "folderCountCs"} THEN 1 ELSE 0)
    + Cardinality({i \in Idx : sfPc[i] = "cs"})
    + Cardinality({i \in Idx : spPc[i] = "cs"})

\* Increment operations completed on each counter, read off the positions of
\* the walker and the tasks.
FileCountCalls ==
    Cardinality({i \in Files : i < walkIdx})
    + (IF walkIdx \in Files /\ walkPc \in {"sizeCheck", "folderCount", "folderCountCs", "goSearchPath"}
       THEN 1 ELSE 0)

FolderCountCalls ==
    Cardinality({i \in Idx : i < walkIdx})
    + (IF walkIdx \in Idx /\ walkPc = "goSearchPath" THEN 1 ELSE 0)

NumFoundIncrements ==
    Cardinality({i \in Idx : /\ sfPc[i] \in {"send", "ret", "end"}
                             /\ Contains(tree[i].content, searchText)})
    + Cardinality({i \in Files : /\ spPc[i] \in {"send", "ret", "end"}
                                 /\ Contains(tree[i].name, searchText)})

DirFoundIncrements ==
    Cardinality({i \in Dirs : /\ spPc[i] \in {"send", "ret", "end"}
                              /\ Contains(tree[i].name, searchText)})

\* C15: at most one goroutine is inside a counter critical section, exactly
\* when the mutex is held; a step that changes a counter is taken by the
\* holder of the mutex, releases it and adds exactly one to exactly one
\* counter; and no increment is lost: each counter always equals the number of
\* increment operations completed on it.
C15_CountersSerialized ==
    /\ [](InCriticalSection <= 1 /\ (lockHeld <=> InCriticalSection = 1))
    /\ [][countVars' # countVars =>
            /\ lockHeld /\ ~lockHeld'
            /\ InCriticalSection = 1 /\ InCriticalSection' = 0
            /\ numFound' \in {numFound, numFound + 1}
            /\ fileVisit' \in {fileVisit, fileVisit + 1}
            /\ dirFound' \in {dirFound, dirFound + 1}
            /\ folderVisit' \in {folderVisit, folderVisit + 1}
            /\ numFound' + fileVisit' + dirFound' + folderVisit'
                 = numFound + fileVisit + dirFound + folderVisit + 1]_vars
    /\ [](/\ fileVisit = FileCountCalls
          /\ folderVisit = FolderCountCalls
          /\ numFound = NumFoundIncrements
          /\ dirFound = DirFoundIncrements)

C15_Witness ==
    /\ lockHeld
    /\ \E i \in Idx : spPc[i] = "cs"
    /\ \E j \in Idx : sfPc[j] = "run" /\ Contains(tree[j].content, searchText)
    /\ numFound = 0

\* Tracked goroutines that have been started and have not yet run wg.Done().
LiveTasks ==
    (IF walkPc \in {"callback", "fileCount", "fileCountCs", "sizeCheck",
                    "folderCount", "folderCountCs", "goSearchPath", "ret"}
     THEN 1 ELSE 0)
    + Cardinality({i \in Idx : readPc[i] \in {"run", "ret"}})
    + Cardinality({i \in Idx : sfPc[i] \in {"run", "cs", "send", "ret"}})
    + Cardinality({i \in Idx : spPc[i] \in {"run", "cs", "send", "ret"}})

\* C16: wg is never negative and always equals the number of tracked
\* goroutines started and not yet ended; a task is started in the step that
\* adds one to wg, and ends in a step that subtracts one; searchFile is started
\* while its readFile is still counted; so once the walker has been started,
\* wg is zero only when the walker and every task have ended.
C16_WaitGroupCountsLiveTasks ==
    /\ [](wg >= 0 /\ wg = LiveTasks)
    /\ []((wg = 0 /\ walkPc \notin {None, "start"}) => (walkPc = "end" /\ AllTasksEnded))
    /\ [][\A i \in Idx :
            /\ (readPc[i] = None /\ readPc'[i] # None) => (readPc'[i] = "run" /\ wg' = wg + 1)
            /\ (spPc[i] = None /\ spPc'[i] # None) => (spPc'[i] = "run" /\ wg' = wg + 1)
            /\ (sfPc[i] = None /\ sfPc'[i] # None) =>
                 (sfPc'[i] = "run" /\ wg' = wg + 1 /\ readPc[i] = "run" /\ readPc'[i] = "ret")
            /\ (readPc[i] # "end" /\ readPc'[i] = "end") => (readPc[i] = "ret" /\ wg' = wg - 1)
            /\ (sfPc[i] # "end" /\ sfPc'[i] = "end") => (sfPc[i] = "ret" /\ wg' = wg - 1)
            /\ (spPc[i] # "end" /\ spPc'[i] = "end") => (spPc[i] = "ret" /\ wg' = wg - 1)]_vars

C16_Witness ==
    /\ wg = 4
    /\ walkPc = "ret"
    /\ \E i \in Idx : readPc[i] = "ret" /\ sfPc[i] = "run"

\* The order of the handshake, read off the positions of cleanup and main:
\* filesFound is closed before cleanup offers the signal; the consumer holds
\* the signal exactly while cleanup waits for the acknowledgment; the consumer
\* is past the loop exactly when cleanup has received the acknowledgment; and
\* done is closed exactly when cleanup has returned.
HandshakeOrder ==
    /\ closeCount = (IF cleanupPc \in {"sendDone", "recvAck", "closeDone", "end"} THEN 1 ELSE 0)
    /\ mainPc = "ack" <=> cleanupPc = "recvAck"
    /\ cleanupPc \in {"closeDone", "end"} <=> mainPc \in {"summary", "ret"} \/ status = "exit0"
    /\ doneClosed <=> cleanupPc = "end"

\* C17 as stated: the handshake steps follow each other in the fixed order,
\* and a search that has ended with status 0 has gone through all of them,
\* the close of done included.
C17_HandshakeRunsToCloseDone ==
    /\ HandshakeOrder
    /\ status = "exit0" => doneClosed

\* C17 amended: the steps follow each other in the fixed order, each at most
\* once; the consumer leaves its loop only in the step that takes cleanup's
\* signal and never re-enters it; done is closed only by cleanup after it has
\* received the acknowledgment; a search that ends with status 0 has closed
\* filesFound and exchanged signal and acknowledgment, while the close of done
\* may not have been executed yet; and under fair scheduling neither side
\* stays blocked on done.
C17_HandshakeOrderedOnce ==
    /\ []HandshakeOrder
    /\ [][(mainPc = "loop" /\ mainPc' # "loop") =>
            /\ closeCount = 1
            /\ cleanupPc = "sendDone" /\ cleanupPc' = "recvAck"
            /\ mainPc' = "ack"]_vars
    /\ [][(mainPc = "ack" /\ mainPc' # "ack") =>
            /\ cleanupPc = "recvAck" /\ cleanupPc' = "closeDone"
            /\ mainPc' = "summary"]_vars
    /\ [][mainPc \notin {"validate", "loop"} => mainPc' # "loop"]_vars
    /\ [][doneClosed # doneClosed' =>
            /\ ~doneClosed
            /\ cleanupPc = "closeDone" /\ cleanupPc' = "end"]_vars
    /\ [](status = "exit0" => closeCount = 1 /\ cleanupPc \in {"closeDone", "end"})
    /\ (cleanupPc = "sendDone") ~> (cleanupPc \in {"closeDone", "end"})
    /\ (mainPc = "ack") ~> (mainPc = "summary")

C17_Witness ==
    /\ status = "exit0"
    /\ cleanupPc = "closeDone"
    /\ ~doneClosed
    /\ closeCount = 1

\* Files among the first i entries of the walk.
FilesUpTo(i) == Cardinality({j \in Files : j <= i})

\* C18: the counters never decrease, and whenever the readFile or searchFile
\* task of a file exists (so before its numFound increment and its content
\* result) fileVisit already counts that file; whenever the searchPath task of
\* an entry exists (so before its name result) folderVisit already counts
\* that entry and, for a file, fileVisit counts it too.
C18_ResultsFollowVisitedCount ==
    /\ [][/\ fileVisit' >= fileVisit /\ folderVisit' >= folderVisit
          /\ numFound' >= numFound /\ dirFound' >= dirFound]_vars
    /\ [](\A i \in Idx :
            /\ (readPc[i] # None \/ sfPc[i] # None \/ contentSent[i] > 0) =>
                 fileVisit >= FilesUpTo(i)
            /\ (spPc[i] # None \/ nameSent[i] > 0) =>
                 /\ folderVisit >= i
                 /\ ~tree[i].isDir => fileVisit >= FilesUpTo(i))

C18_Witness ==
    /\ N = 2
    /\ contentSent[2] = 1
    /\ nameSent[2] = 1
    /\ fileVisit = 1
    /\ numFound = 2

\* The match reports among the logged records.
Reports == {l \in logs : l[1] \in {"Match found", "Match not found"}}

\* The report l is the one the consumer logs for a result some task of entry
\* i has delivered.
ReportOf(l, i) ==
    /\ l[4] = <<i>>
    /\ l[3] = tree[i].name
    /\ l[2] = (IF tree[i].isDir THEN "folder" ELSE "file")
    /\ \/ nameSent[i] = 1
          /\ l[1] = (IF Contains(tree[i].name, searchText)
                     THEN "Match found" ELSE "Match not found")
       \/ contentSent[i] = 1
          /\ l[1] = (IF Contains(tree[i].content, searchText)
                     THEN "Match found" ELSE "Match not found")

\* C19: the consumer receives from filesFound after its close only while it
\* is in the loop; the step logs nothing, changes no counter, counts no result
\* and leaves the consumer in the loop; and every match report logged is the
\* report of a result a task has delivered.
C19_ClosedReceiveIsSilent ==
    /\ [][(~zeroRecv /\ zeroRecv') =>
            /\ closeCount = 1
            /\ cleanupPc = "sendDone"
            /\ mainPc = "loop" /\ mainPc' = "loop"
            /\ logs' = logs
            /\ countVars' = countVars
            /\ received' = received
            /\ status' = status]_vars
    /\ [](ConsumerLogs(ZeroResult) = {})
    /\ [](\A l \in Reports : \E i \in Idx : ReportOf(l, i))
    /\ [](zeroRecv => Cardinality(Reports) <= received)

C19_Witness ==
    /\ zeroRecv
    /\ verbose
    /\ mainPc = "loop"
    /\ received = 3
    /\ \E l \in Reports : l[1] = "Match not found"
    /\ \E l \in Reports : l[1] = "Match found"

\* The size-skip notice of entry i.
SkipNotice(i) == <<"Skip file too large", "file", tree[i].name, <<i>>>>

\* The walker has gone through the size test of entry i.
PastSizeCheck(i) ==
    \/ walkIdx > i
    \/ walkIdx = i /\ walkPc \in {"folderCount", "folderCountCs", "goSearchPath"}

\* What holds of a file at or above the ceiling whether or not -v is given:
\* it is never read, it is counted in fileVisit by the time of the size test,
\* and it has its searchPath task once the walker has left the entry.
OversizeFileFrame(i) ==
    /\ readPc[i] = None /\ sfPc[i] = None /\ contentSent[i] = 0
    /\ PastSizeCheck(i) => fileVisit >= FilesUpTo(i)
    /\ walkIdx > i => spPc[i] # None
    /\ Completed => nameSent[i] = 1

====
